---- MODULE Spec2Model ----
(***************************************************************************)
(* Model of remove_stuck_job.py: a sweep over the queue-state containers   *)
(* of a Redis keyspace that removes job references and deletes job keys,   *)
(* and of find_unique_album_name of create_album_from_folder.py.           *)
(* Key names, job ids and glob patterns are sequences of one-character     *)
(* strings, so that suffix tests, substring tests and Redis glob matching  *)
(* are computed character by character.                                    *)
(***************************************************************************)
EXTENDS Naturals, Sequences, FiniteSets

VARIABLES
  store,    \* the Redis keyspace: key name -> [t: type, m: members]
  args,     \* parsed command line of the current run
  pc,       \* position of the current run
  patIdx,   \* index of the pattern the for loop of main is at
  cur,      \* cursor of scan_keys(pattern) in main
  batch,    \* keys of the last r.scan of main not yet yielded
  calls,    \* clean_container calls still to make for the yielded key
  k,        \* container key being cleaned
  t,        \* type last read by r.type(k)
  ids,      \* ids extracted by get_job_ids(k)
  idx,      \* index into ids of the running for loop
  dcur,     \* cursor of scan_keys("*jid*") in delete_job
  dbatch,   \* keys of the last r.scan of delete_job not yet visited
  log,      \* calls made and lines printed by the current run, in order
  store0,   \* the keyspace when the current run started
  hist,     \* finished runs: [args, store0, prints]
  album     \* find_unique_album_name: its arguments, locals and result

vars == <<store, args, pc, patIdx, cur, batch, calls, k, t, ids, idx,
          dcur, dbatch, log, store0, hist, album>>

----------------------------------------------------------------------------
\* Bounds of the model.

\* Total number of container members in an initial keyspace.
MaxRefs == 2

\* Number of members of the container of the one-container keyspaces.
MaxLen == 3

\* Number of existing albums handed to find_unique_album_name.
MaxAlbums == 3

----------------------------------------------------------------------------
\* Strings as character sequences.

\* The characters used, in ASCII order (ranges of a glob class compare codes).
AsciiOrder ==
  <<"*", "-", "7", ":", "?", "[", "\\", "]", "^",
    "a", "c", "d", "e", "f", "g", "i", "l", "m", "n", "p", "q", "s", "t",
    "u", "v", "w", "y">>

Ord(c) == CHOOSE i \in 1..Len(AsciiOrder) : AsciiOrder[i] = c

DropN(s, n) == SubSeq(s, n + 1, Len(s))

\* str.endswith
EndsWith(name, suffix) ==
  /\ Len(name) >= Len(suffix)
  /\ SubSeq(name, Len(name) - Len(suffix) + 1, Len(name)) = suffix

\* j occurs in name as a contiguous substring
Contains(name, j) ==
  \E i \in 0..(Len(name) - Len(j)) : SubSeq(name, i + 1, i + Len(j)) = j

SufFailed  == <<":", "f", "a", "i", "l", "e", "d">>
SufActive  == <<":", "a", "c", "t", "i", "v", "e">>
SufWaiting == <<":", "w", "a", "i", "t", "i", "n", "g">>
SufWait    == <<":", "w", "a", "i", "t">>
SufPaused  == <<":", "p", "a", "u", "s", "e", "d">>
SufDelayed == <<":", "d", "e", "l", "a", "y", "e", "d">>

QUEUE_PATTERNS ==
  << <<"*">> \o SufFailed, <<"*">> \o SufActive, <<"*">> \o SufWaiting,
     <<"*">> \o SufWait, <<"*">> \o SufPaused, <<"*">> \o SufDelayed >>

\* (variant: a pattern that matches every key)
JobPatternAny(jid) == <<"*">>

\* f"*{job_id}*"
JobPattern(jid) == <<"*">> \o jid \o <<"*">>

----------------------------------------------------------------------------
\* Glob matching of SCAN ... MATCH, as the Redis server does it
\* (case sensitive): * ? [class] [^class] [a-z] and \ as escape.

\* The members of a class, read from the pattern after "[" and "^": the
\* result is whether character c is a member, and the pattern left after
\* the class. A class the pattern ends in runs to the pattern's end.
RECURSIVE ClassScan(_, _, _)
ClassScan(p, c, hit) ==
  IF Len(p) >= 2 /\ p[1] = "\\"
    THEN ClassScan(DropN(p, 2), c, hit \/ p[2] = c)
  ELSE IF Len(p) = 0
    THEN [hit |-> hit, rest |-> <<>>]
  ELSE IF p[1] = "]"
    THEN [hit |-> hit, rest |-> DropN(p, 1)]
  ELSE IF Len(p) >= 3 /\ p[2] = "-"
    THEN LET lo == IF Ord(p[1]) <= Ord(p[3]) THEN Ord(p[1]) ELSE Ord(p[3])
             hi == IF Ord(p[1]) <= Ord(p[3]) THEN Ord(p[3]) ELSE Ord(p[1])
         IN  ClassScan(DropN(p, 3), c, hit \/ (lo <= Ord(c) /\ Ord(c) <= hi))
  ELSE ClassScan(DropN(p, 1), c, hit \/ p[1] = c)

RECURSIVE GlobMatch(_, _)
GlobMatch(p, s) ==
  IF p = <<>> THEN s = <<>>
  ELSE IF p[1] = "*"
    THEN \E n \in 0..Len(s) : GlobMatch(DropN(p, 1), DropN(s, n))
  ELSE IF s = <<>> THEN FALSE
  ELSE IF p[1] = "?" THEN GlobMatch(DropN(p, 1), DropN(s, 1))
  ELSE IF p[1] = "["
    THEN LET neg  == Len(p) >= 2 /\ p[2] = "^"
             body == IF neg THEN DropN(p, 2) ELSE DropN(p, 1)
             cls  == ClassScan(body, s[1], FALSE)
         IN  /\ (cls.hit # neg)
             /\ GlobMatch(cls.rest, DropN(s, 1))
  ELSE IF p[1] = "\\" /\ Len(p) >= 2
    THEN p[2] = s[1] /\ GlobMatch(DropN(p, 2), DropN(s, 1))
  ELSE p[1] = s[1] /\ GlobMatch(DropN(p, 1), DropN(s, 1))

----------------------------------------------------------------------------
\* The keyspace.

None == [t |-> "none", m |-> <<>>]

\* Job ids: a plain id, an id that occurs in container key names
\* ("p:failed", "q:paused"), and an id holding the glob escape character.
Id7  == <<"7">>
IdP  == <<"p">>
IdBs == <<"\\">>
IdSeq == <<Id7, IdP, IdBs>>
PlainIds == {Id7, IdP}
GlobIds == {Id7, IdBs}
IdIndex(j) == CHOOSE i \in 1..Len(IdSeq) : IdSeq[i] = j

Q(suffix) == <<"q">> \o suffix
QFailed  == Q(SufFailed)
PFailed  == <<"p">> \o SufFailed
QActive  == Q(SufActive)
QWaiting == Q(SufWaiting)
QWait    == Q(SufWait)
QPaused  == Q(SufPaused)
QDelayed == Q(SufDelayed)

\* The job hash of job j of queue q, and the queue's meta key.
DataKey(j) == <<"q", ":">> \o j
MetaKey == <<"q", ":", "m", "e", "t", "a">>

\* The hash table of the keyspace, in the order SCAN walks its slots.
KeyOrder ==
  <<QFailed, DataKey(Id7), QDelayed, PFailed, MetaKey, QActive, DataKey(IdP),
    QWaiting, QWait, DataKey(IdBs), QPaused>>

KeyNames == {KeyOrder[i] : i \in 1..Len(KeyOrder)}
ContainerNames ==
  {QFailed, PFailed, QActive, QWaiting, QWait, QPaused, QDelayed}

Range(s) == {s[i] : i \in 1..Len(s)}
Injective(s) == \A a, b \in 1..Len(s) : s[a] = s[b] => a = b
Increasing(s) == \A a, b \in 1..Len(s) : a < b => IdIndex(s[a]) < IdIndex(s[b])
SeqsUpTo(S, n) == UNION {[1..l -> S] : l \in 1..n}

\* What a container key can hold: a list (duplicates allowed), a set (kept
\* here in a canonical order), a sorted set (in score order, the scores
\* rising with the ids' order in IdSeq), or a value of another type. Redis holds no empty list, set or sorted set.
ContainerValues(I, n) ==
  {[t |-> "list", m |-> s] : s \in SeqsUpTo(I, n)}
    \cup {[t |-> "set", m |-> s] : s \in {x \in SeqsUpTo(I, n) : Increasing(x)}}
    \cup {[t |-> "zset", m |-> s] : s \in {x \in SeqsUpTo(I, n) : Increasing(x)}}
    \cup {[t |-> "string", m |-> <<>>]}

\* A keyspace with every job hash and the meta key, and containers c1, c2.
BaseStore ==
  [key \in KeyNames |->
     IF key \in ContainerNames THEN None ELSE [t |-> "hash", m |-> <<>>]]

StoreOf(c1, v1, c2, v2) == [BaseStore EXCEPT ![c1] = v1, ![c2] = v2]

----------------------------------------------------------------------------
\* Redis commands.

\* SCAN cur MATCH pattern COUNT count: the existing keys matching pattern
\* among the next count slots, and the next cursor (0 when the walk is over).
ScanCount == 5000

RScan(c, pattern) ==
  LET last == IF c + ScanCount >= Len(KeyOrder) THEN Len(KeyOrder)
              ELSE c + ScanCount
      slots == SubSeq(KeyOrder, c + 1, last)
  IN  [cur  |-> IF last = Len(KeyOrder) THEN 0 ELSE last,
       keys |-> SelectSeq(slots,
                  LAMBDA key : store[key].t # "none" /\ GlobMatch(pattern, key))]

\* LREM key count value, for count >= 0: count = 0 removes every occurrence,
\* count > 0 the first count occurrences.
RECURSIVE LRem(_, _, _)
LRem(m, count, v) ==
  IF m = <<>> THEN <<>>
  ELSE IF Head(m) = v
    THEN IF count = 0 THEN LRem(Tail(m), 0, v)
         ELSE IF count = 1 THEN Tail(m)
         ELSE LRem(Tail(m), count - 1, v)
  ELSE <<Head(m)>> \o LRem(Tail(m), count, v)

\* SREM / ZREM key member
MRem(m, v) == SelectSeq(m, LAMBDA x : x # v)

\* A key whose last member is removed is removed from the keyspace.
Stored(ty, m) == IF m = <<>> THEN None ELSE [t |-> ty, m |-> m]

\* LRANGE k 0 -1 and ZRANGE k 0 -1 answer in stored order, SMEMBERS in any.
Perms(s) == {x \in [1..Len(s) -> Range(s)] : Range(x) = Range(s)}
ReadOrders(v) == IF v.t = "set" THEN Perms(v.m) ELSE {v.m}

\* EXISTS key
Exists(key) == store[key].t # "none"

\* DEL key
Deleted(key) == [store EXCEPT ![key] = None]

\* An entry of the log: a call (op) on a key or pattern, the job ids it
\* carries (arg), a number (n: the cursor of a scan, the count of a print,
\* the reply of LREM / SREM / ZREM / DEL) and, for r.type, the type
\* answered (ty).
Ev(op, key, arg, n) ==
  [op |-> op, key |-> key, arg |-> arg, n |-> n, ty |-> ""]
TypeEv(key, ty) ==
  [op |-> "type", key |-> key, arg |-> <<>>, n |-> 0, ty |-> ty]

----------------------------------------------------------------------------
\* The program.

Flags == [failed : BOOLEAN, active : BOOLEAN, queued : BOOLEAN, dry : BOOLEAN]

is_failed(name) == EndsWith(name, SufFailed)
is_active(name) == EndsWith(name, SufActive)
\* (variant: the suffix tuple without ":paused")
is_queued_no_paused(name) ==
  \/ EndsWith(name, SufWaiting)
  \/ EndsWith(name, SufWait)
  \/ EndsWith(name, SufDelayed)

is_queued(name) ==
  \/ EndsWith(name, SufWaiting)
  \/ EndsWith(name, SufWait)
  \/ EndsWith(name, SufPaused)
  \/ EndsWith(name, SufDelayed)

\* The three if statements of main's loop body: the number of
\* clean_container calls they make for a key.
CleanCalls(name) ==
  (IF is_failed(name) /\ args.failed THEN 1 ELSE 0)
    + (IF is_active(name) /\ args.active THEN 1 ELSE 0)
    + (IF is_queued(name) /\ args.queued THEN 1 ELSE 0)

\* if not (args.clean_failed or args.clean_active or args.clean_queued)
NoneSelected == ~(args.failed \/ args.active \/ args.queued)

Recognized == {"list", "set", "zset"}

\* (variant: the dry flag ignored)
MutatesAlways == TRUE

\* delete_job's "if not dry:" and clean_container's "if not dry:"
Mutates == ~args.dry

\* (variant: the answer turned into a list of distinct ids)
RECURSIVE ExtractedDistinct(_)
ExtractedDistinct(order) ==
  IF order = <<>> THEN <<>>
  ELSE <<Head(order)>>
         \o ExtractedDistinct(SelectSeq(Tail(order), LAMBDA x : x # Head(order)))

\* (variant: a key of another type taken for a one-job container)
FallbackKeyAsId(key) == <<Id7>>

\* get_job_ids: the list built from what r.lrange / smembers / zrange
\* answered, and the list returned for any other type.
Extracted(order) == order
Fallback(key) == <<>>

\* (variant: the early return left out)
NoIdsNever(got) == FALSE

\* clean_container: "if not ids: return"
NoIds(got) == got = <<>>

\* (variant: a command on a key that is gone answered with an error too)
WrongTypeOrAbsent(v, ty) == v.t # ty

\* A list / set / sorted-set command on value v, chosen for type ty: Redis
\* answers a key of another type with a WRONGTYPE error, and a key that
\* does not exist like an empty container.
WrongType(v, ty) == v.t \notin {ty, "none"}

\* The for loops of main and scan_keys once batch b is what is left of the
\* last r.scan, with cursor c, in pattern p: yield the next key, scan again
\* unless cur == 0, go to the next pattern, or print the closing line.
\* (variant: the for loop of main ending before the last pattern)
LoopPcShort(b, c, p) ==
  IF b # <<>> THEN "yield"
  ELSE IF c # 0 \/ p < Len(QUEUE_PATTERNS) - 1 THEN "scan"
  ELSE "done"

LoopPc(b, c, p) ==
  IF b # <<>> THEN "yield"
  ELSE IF c # 0 \/ p < Len(QUEUE_PATTERNS) THEN "scan"
  ELSE "done"

LoopPat(b, c, p) ==
  IF b = <<>> /\ c = 0 /\ p < Len(QUEUE_PATTERNS) THEN p + 1 ELSE p

LoopLog(b, c, p, logNow) ==
  IF LoopPc(b, c, p) = "done"
    THEN Append(logNow, Ev("done", <<>>, <<>>, 0))
    ELSE logNow

\* clean_container returns: main makes the key's next call, or goes on
\* with the scan.
Return(logNow) ==
  /\ pc' = IF calls > 1 THEN "gettype" ELSE LoopPc(batch, cur, patIdx)
  /\ patIdx' = IF calls > 1 THEN patIdx ELSE LoopPat(batch, cur, patIdx)
  /\ calls' = IF calls > 1 THEN calls - 1 ELSE 0
  /\ log' = IF calls > 1 THEN Append(logNow, Ev("clean", k, <<>>, 0))
            ELSE LoopLog(batch, cur, patIdx, logNow)
  /\ ids' = <<>>
  /\ idx' = 0
  /\ dcur' = 0
  /\ dbatch' = <<>>

\* delete_job's loop once batch b is what is left of its last r.scan, with
\* cursor c: visit the next key, scan again unless cur == 0, go to the next
\* jid of clean_container's "for jid in ids", or return.
DeleteLoop(b, c, logNow) ==
  IF b # <<>> \/ c # 0
    THEN /\ pc' = IF b # <<>> THEN "del_key" ELSE "del_scan"
         /\ dbatch' = b
         /\ dcur' = c
         /\ log' = logNow
         /\ UNCHANGED <<patIdx, calls, ids, idx>>
  ELSE IF idx < Len(ids)
    THEN /\ pc' = "del_scan"
         /\ idx' = idx + 1
         /\ dbatch' = b
         /\ dcur' = c
         /\ log' = logNow
         /\ UNCHANGED <<patIdx, calls, ids>>
  ELSE Return(logNow)

\* clean_container's "for jid in ids: delete_job(jid, dry)" starts
StartDeletes(list, logNow) ==
  IF list = <<>>
    THEN Return(logNow)
    ELSE /\ pc' = "del_scan"
         /\ ids' = list
         /\ idx' = 1
         /\ log' = logNow
         /\ UNCHANGED <<patIdx, calls, dcur, dbatch>>

\* clean_container once get_job_ids returned got: return if there are no
\* ids, else print the count and remove references or, under --dry-run,
\* go to the delete loop.
AfterExtract(got, logNow) ==
  LET after == Append(logNow, Ev("ids", k, got, Len(got)))
  IN  IF NoIds(got)
        THEN Return(after)
        ELSE IF Mutates
          THEN /\ pc' = "type2"
               /\ ids' = got
               /\ idx' = 1
               /\ log' = Append(after, Ev("print", k, <<>>, Len(got)))
               /\ UNCHANGED <<patIdx, calls, dcur, dbatch>>
          ELSE StartDeletes(got, Append(after, Ev("print", k, <<>>, Len(got))))

\* find_unique_album_name is not running.
NoCall ==
  [pc |-> "idle", base_name |-> <<>>, existing_albums |-> <<>>,
   existing_names |-> <<>>, i |-> 0, ret |-> <<>>]

\* The locals of the tool before main runs.
ToolLocals ==
  /\ patIdx = 0
  /\ cur = 0
  /\ batch = <<>>
  /\ calls = 0
  /\ k = <<>>
  /\ t = "none"
  /\ ids = <<>>
  /\ idx = 0
  /\ dcur = 0
  /\ dbatch = <<>>
  /\ log = <<>>
  /\ hist = <<>>

InitLocals ==
  /\ album = NoCall
  /\ pc = "import"
  /\ ToolLocals

Init ==
  /\ args \in Flags
  /\ \E c1, c2 \in ContainerNames :
       \E v1, v2 \in ContainerValues(PlainIds, MaxRefs) \cup {None} :
         /\ Len(v1.m) + Len(v2.m) <= MaxRefs
         /\ store = StoreOf(c1, v1, c2, v2)
  /\ store0 = store
  /\ InitLocals

\* The failed-state container of queue q and one more container: another
\* queue's failed-state container, or a queued-state container of q.
InitFair ==
  /\ args \in Flags
  /\ \E c2 \in {PFailed, QWait, QPaused} :
       \E v1, v2 \in ContainerValues(PlainIds, MaxRefs) \cup {None} :
         /\ Len(v1.m) + Len(v2.m) <= MaxRefs
         /\ store = StoreOf(QFailed, v1, c2, v2)
  /\ store0 = store
  /\ InitLocals

\* One failed-state container of any recognized type, holding up to
\* MaxLen members (plain ids and ids with glob characters), swept with
\* --clean-failed.
InitFailed ==
  /\ args \in {f \in Flags : f.failed}
  /\ \E v \in ContainerValues(PlainIds \cup GlobIds, MaxLen) :
       store = StoreOf(QFailed, v, QFailed, v)
  /\ store0 = store
  /\ InitLocals

\* r = redis.from_url(REDIS_URL, decode_responses=False), at module load
FromUrl ==
  /\ UNCHANGED album
  /\ pc = "import"
  /\ pc' = "main"
  /\ log' = Append(log, Ev("from_url", <<>>, <<>>, 0))
  /\ UNCHANGED <<store, args, patIdx, cur, batch, calls, k, t, ids, idx,
                 dcur, dbatch, store0, hist>>

\* main, up to the for loop
Main ==
  /\ UNCHANGED album
  /\ pc = "main"
  /\ IF NoneSelected
       THEN pc' = "usage_error" /\ patIdx' = patIdx
       ELSE pc' = "scan" /\ patIdx' = 1
  /\ cur' = 0
  /\ UNCHANGED <<store, args, batch, calls, k, t, ids, idx, dcur, dbatch,
                 log, store0, hist>>

\* scan_keys(pattern): cur, keys = r.scan(cur, match=pattern, count=5000)
Scan ==
  /\ UNCHANGED album
  /\ pc = "scan"
  /\ LET res    == RScan(cur, QUEUE_PATTERNS[patIdx])
         logNow == Append(log, Ev("scan", QUEUE_PATTERNS[patIdx], <<>>, cur))
     IN  /\ cur' = res.cur
         /\ batch' = res.keys
         /\ pc' = LoopPc(res.keys, res.cur, patIdx)
         /\ patIdx' = LoopPat(res.keys, res.cur, patIdx)
         /\ log' = LoopLog(res.keys, res.cur, patIdx, logNow)
  /\ UNCHANGED <<store, args, calls, k, t, ids, idx, dcur, dbatch,
                 store0, hist>>

\* scan_keys yields the next key of the batch; main classifies it and calls
\* clean_container or goes on
Yield ==
  /\ UNCHANGED album
  /\ pc = "yield"
  /\ batch # <<>>
  /\ LET name == Head(batch)
         n    == CleanCalls(name)
     IN  /\ batch' = Tail(batch)
         /\ calls' = n
         /\ IF n > 0
              THEN /\ pc' = "gettype"
                   /\ k' = name
                   /\ patIdx' = patIdx
                   /\ log' = log \o <<Ev("yield", name, <<>>, n),
                                      Ev("clean", name, <<>>, 0)>>
              ELSE /\ pc' = LoopPc(Tail(batch), cur, patIdx)
                   /\ patIdx' = LoopPat(Tail(batch), cur, patIdx)
                   /\ k' = k
                   /\ log' = LoopLog(Tail(batch), cur, patIdx,
                                     Append(log, Ev("yield", name, <<>>, 0)))
  /\ UNCHANGED <<store, args, cur, t, ids, idx, dcur, dbatch, store0, hist>>

\* get_job_ids: t = r.type(k).decode(), and "return []" for another type
GetType ==
  /\ UNCHANGED album
  /\ pc = "gettype"
  /\ t' = store[k].t
  /\ IF t' \in Recognized
       THEN /\ pc' = "getids"
            /\ log' = Append(log, TypeEv(k, t'))
            /\ UNCHANGED <<patIdx, calls, ids, idx, dcur, dbatch>>
       ELSE AfterExtract(Fallback(k), Append(log, TypeEv(k, t')))
  /\ UNCHANGED <<store, args, cur, batch, k, store0, hist>>

\* get_job_ids: r.lrange / r.smembers / r.zrange (an error on a key of
\* another type), then clean_container's "if not ids: return" and its print
GetIds ==
  /\ UNCHANGED album
  /\ pc = "getids"
  /\ IF WrongType(store[k], t)
       THEN /\ pc' = "crashed"
            /\ log' = Append(log, Ev("read", k, <<>>, 0))
            /\ UNCHANGED <<patIdx, calls, ids, idx, dcur, dbatch>>
       ELSE \E order \in ReadOrders(store[k]) :
              AfterExtract(Extracted(order), Append(log, Ev("read", k, <<>>, 0)))
  /\ UNCHANGED <<store, args, cur, batch, k, t, store0, hist>>

\* clean_container: t = r.type(k).decode()
Type2 ==
  /\ UNCHANGED album
  /\ pc = "type2"
  /\ t' = store[k].t
  /\ IF t' \in Recognized /\ ids # <<>>
       THEN /\ pc' = "rem"
            /\ log' = Append(log, TypeEv(k, t'))
            /\ UNCHANGED <<patIdx, calls, ids, idx, dcur, dbatch>>
       ELSE StartDeletes(ids, Append(log, TypeEv(k, t')))
  /\ UNCHANGED <<store, args, cur, batch, k, store0, hist>>

\* (variant: only the list branch removes)
RemoveReferenceListOnly(v, jid) ==
  IF v.t = "list" THEN LRem(v.m, 0, jid) ELSE v.m

\* The members of k after r.lrem(k, 0, jid) / r.srem(k, jid) / r.zrem(k, jid)
RemoveReference(v, jid) ==
  IF v.t = "list" THEN LRem(v.m, 0, jid) ELSE MRem(v.m, jid)

\* (variant: the remove loop left after its first id)
MoreToRemoveNever == FALSE

\* clean_container: the remove loop "for jid in ids" has another id to go
MoreToRemove == idx < Len(ids)

\* clean_container: one round of "for jid in ids: r.lrem / srem / zrem"
\* (an error on a key of another type)
Rem ==
  /\ UNCHANGED album
  /\ pc = "rem"
  /\ LET left   == RemoveReference(store[k], ids[idx])
         logNow == Append(log, Ev("rem", k, <<ids[idx]>>,
                                  Len(store[k].m) - Len(left)))
     IN  IF WrongType(store[k], t)
           THEN /\ pc' = "crashed"
                /\ store' = store
                /\ log' = logNow
                /\ UNCHANGED <<patIdx, calls, ids, idx, dcur, dbatch>>
           ELSE /\ store' = [store EXCEPT ![k] = Stored(@.t, left)]
                /\ IF MoreToRemove
                     THEN /\ pc' = "rem"
                          /\ idx' = idx + 1
                          /\ log' = logNow
                          /\ UNCHANGED <<patIdx, calls, ids, dcur, dbatch>>
                     ELSE StartDeletes(ids, logNow)
  /\ UNCHANGED <<args, cur, batch, k, t, store0, hist>>

\* delete_job: scan_keys(f"*{job_id}*"): r.scan(cur, match=..., count=5000)
DelScan ==
  /\ UNCHANGED album
  /\ pc = "del_scan"
  /\ LET res == RScan(dcur, JobPattern(ids[idx]))
     IN  DeleteLoop(res.keys, res.cur,
                    Append(log, Ev("scan", JobPattern(ids[idx]), <<>>, dcur)))
  /\ UNCHANGED <<store, args, cur, batch, k, t, store0, hist>>

\* delete_job: one round of "for k in scan_keys(...): if not dry: r.delete(k)"
DelKey ==
  /\ UNCHANGED album
  /\ pc = "del_key"
  /\ dbatch # <<>>
  /\ IF Mutates
       THEN /\ store' = Deleted(Head(dbatch))
            /\ DeleteLoop(Tail(dbatch), dcur,
                 Append(log, Ev("delete", Head(dbatch), <<ids[idx]>>,
                                IF Exists(Head(dbatch)) THEN 1 ELSE 0)))
       ELSE /\ store' = store
            /\ DeleteLoop(Tail(dbatch), dcur, log)
  /\ UNCHANGED <<args, cur, batch, k, t, store0, hist>>

\* The lines "[<container>] <N> jobs" a run printed, in order.
Prints(l) == SelectSeq(l, LAMBDA e : e.op = "print")

\* The positions of the log.
LogIdx == 1..Len(log)

\* The tool is run again on the keyspace the finished run left, with the
\* same states selected and without --dry-run.
Rerun ==
  /\ UNCHANGED album
  /\ pc = "done"
  /\ hist = <<>>
  /\ hist' = Append(hist, [args |-> args, store0 |-> store0,
                            prints |-> Prints(log)])
  /\ args' = [args EXCEPT !.dry = FALSE]
  /\ store0' = store
  /\ pc' = "import"
  /\ patIdx' = 0
  /\ k' = <<>>
  /\ t' = "none"
  /\ log' = <<>>
  /\ UNCHANGED <<store, cur, batch, calls, ids, idx, dcur, dbatch>>

\* One run of the tool.
Next ==
  \/ FromUrl
  \/ Main
  \/ Scan
  \/ Yield
  \/ GetType
  \/ GetIds
  \/ Type2
  \/ Rem
  \/ DelScan
  \/ DelKey

Spec == Init /\ [][Next]_vars

\* One run of the tool on a keyspace with one failed-state container.
SpecFailed == InitFailed /\ [][Next]_vars

\* Two runs of the tool in immediate succession.
NextTwice ==
  \/ Next
  \/ Rerun

SpecTwice == Init /\ [][NextTwice]_vars

\* One run of the tool that is not held up: the interpreter takes the
\* program's next step, and the server answers every command.
SpecFair == InitFair /\ [][Next]_vars /\ WF_vars(Next)

----------------------------------------------------------------------------
\* create_album_from_folder.py: find_unique_album_name(base_name,
\* existing_albums). Album names are character sequences, like key names.

DigitChars == <<"0", "1", "2", "3", "4", "5", "6", "7", "8", "9">>

\* str(i) for an integer i >= 0: its decimal digits, no sign, no padding
RECURSIVE Decimal(_)
Decimal(n) ==
  IF n < 10 THEN <<DigitChars[n + 1]>>
  ELSE Decimal(n \div 10) \o <<DigitChars[(n % 10) + 1]>>

\* f"{base_name} {i}"
FormatName(base_name, i) == base_name \o <<" ">> \o Decimal(i)

\* (variant: every name taken for unused)
NotInAny(name, names) == TRUE

\* name not in names, for a list
NotIn(name, names) == \A x \in 1..Len(names) : names[x] # name

\* Album names: "a", "a 1", "a 2", "a 01", "a 1 1", "b".
NameA   == <<"a">>
NameA1  == <<"a", " ", "1">>
NameA2  == <<"a", " ", "2">>
NameA01 == <<"a", " ", "0", "1">>
NameA11 == <<"a", " ", "1", " ", "1">>
NameB   == <<"b">>
AlbumNames == {NameA, NameA1, NameA2, NameA01, NameA11, NameB}
BaseNames == {NameA, NameA1}

\* The albums the server lists: any names, the same name more than once.
AlbumLists ==
  {<<>>} \cup SeqsUpTo({[albumName |-> n] : n \in AlbumNames}, MaxAlbums)

\* find_unique_album_name is called; the tool of the other file is not
\* running.
InitAlbum ==
  /\ \E b \in BaseNames, l \in AlbumLists :
       album = [pc |-> "call", base_name |-> b, existing_albums |-> l,
                existing_names |-> <<>>, i |-> 0, ret |-> <<>>]
  /\ store = BaseStore
  /\ store0 = store
  /\ args = [failed |-> FALSE, active |-> FALSE, queued |-> FALSE,
             dry |-> FALSE]
  /\ pc = "off"
  /\ ToolLocals

\* existing_names = [...]; "if base_name not in existing_names: return
\* base_name"; i = 1
FindCall ==
  /\ album.pc = "call"
  /\ LET names == [x \in 1..Len(album.existing_albums) |->
                    album.existing_albums[x].albumName]
     IN  album' =
           IF NotIn(album.base_name, names)
             THEN [album EXCEPT !.existing_names = names,
                                !.ret = album.base_name,
                                !.pc = "returned"]
             ELSE [album EXCEPT !.existing_names = names,
                                !.i = 1,
                                !.pc = "loop"]
  /\ UNCHANGED <<store, args, pc, patIdx, cur, batch, calls, k, t, ids, idx,
                 dcur, dbatch, log, store0, hist>>

\* One round of "while True": new_name = f"{base_name} {i}", returned if
\* it is not in existing_names, else i += 1
FindLoop ==
  /\ album.pc = "loop"
  /\ LET new_name == FormatName(album.base_name, album.i)
     IN  album' =
           IF NotIn(new_name, album.existing_names)
             THEN [album EXCEPT !.ret = new_name, !.pc = "returned"]
             ELSE [album EXCEPT !.i = @ + 1]
  /\ UNCHANGED <<store, args, pc, patIdx, cur, batch, calls, k, t, ids, idx,
                 dcur, dbatch, log, store0, hist>>

NextAlbum ==
  \/ FindCall
  \/ FindLoop

\* One call of find_unique_album_name that is not held up.
SpecAlbum == InitAlbum /\ [][NextAlbum]_vars /\ WF_vars(NextAlbum)

----------------------------------------------------------------------------
\* The order of a SCAN answer. SCAN returns the keys of a walk in the order
\* of the server's hash table, which the key names do not fix.

\* The failed-state containers of two queues, swept with --clean-failed,
\* not dry.
InitOrder ==
  /\ args \in {f \in Flags : f.failed /\ ~f.dry}
  /\ \E v1, v2 \in ContainerValues(PlainIds, MaxRefs) \cup {None} :
       /\ Len(v1.m) + Len(v2.m) <= MaxRefs
       /\ store = StoreOf(QFailed, v1, PFailed, v2)
  /\ store0 = store
  /\ InitLocals

\* scan_keys(pattern): cur, keys = r.scan(cur, match=pattern, count=5000),
\* the keys in any order
ScanAnyOrder ==
  /\ UNCHANGED album
  /\ pc = "scan"
  /\ LET res    == RScan(cur, QUEUE_PATTERNS[patIdx])
         logNow == Append(log, Ev("scan", QUEUE_PATTERNS[patIdx], <<>>, cur))
     IN  \E keys \in Perms(res.keys) :
           /\ cur' = res.cur
           /\ batch' = keys
           /\ pc' = LoopPc(keys, res.cur, patIdx)
           /\ patIdx' = LoopPat(keys, res.cur, patIdx)
           /\ log' = LoopLog(keys, res.cur, patIdx, logNow)
  /\ UNCHANGED <<store, args, calls, k, t, ids, idx, dcur, dbatch,
                 store0, hist>>

\* The same command line is run on the keyspace the finished run started
\* from; the keyspace the finished run left is kept in hist.
Replay ==
  /\ UNCHANGED album
  /\ pc = "done"
  /\ hist = <<>>
  /\ hist' = Append(hist, [args |-> args, store0 |-> store0,
                            prints |-> Prints(log), final |-> store])
  /\ store' = store0
  /\ pc' = "import"
  /\ patIdx' = 0
  /\ k' = <<>>
  /\ t' = "none"
  /\ log' = <<>>
  /\ UNCHANGED <<args, store0, cur, batch, calls, ids, idx, dcur, dbatch>>

\* Two runs of the same command line on the same keyspace.
NextOrder ==
  \/ FromUrl
  \/ Main
  \/ ScanAnyOrder
  \/ Yield
  \/ GetType
  \/ GetIds
  \/ Type2
  \/ Rem
  \/ DelScan
  \/ DelKey
  \/ Replay

SpecOrder == InitOrder /\ [][NextOrder]_vars

----------------------------------------------------------------------------
\* A run that is interrupted, and the runs after it.

\* The entry that opened the clean_container call the run is in.
ThisClean ==
  CHOOSE c \in LogIdx :
    log[c].op = "clean" /\ \A m \in LogIdx : m > c => log[m].op # "clean"

\* The jobs whose reference the running clean has removed from its
\* container and whose hash is still there.
Exposed ==
  {j \in Range(ids) :
     /\ Exists(DataKey(j))
     /\ j \notin Range(store[k].m)
     /\ \E m \in LogIdx :
          m > ThisClean /\ log[m].op = "rem" /\ log[m].arg = <<j>>}

\* The failed-state and the active-state container of queue q, swept with
\* --clean-failed, not dry.
InitAbort ==
  /\ args \in {f \in Flags : f.failed /\ ~f.dry}
  /\ \E v1, v2 \in ContainerValues(PlainIds, MaxRefs) \cup {None} :
       /\ Len(v1.m) + Len(v2.m) <= MaxRefs
       /\ store = StoreOf(QFailed, v1, QActive, v2)
  /\ store0 = store
  /\ InitLocals

\* The process is killed inside clean_container, after it removed a
\* reference whose job hash it has not deleted yet. hist keeps the keyspace
\* it leaves and the jobs left that way.
Abort ==
  /\ UNCHANGED album
  /\ hist = <<>>
  /\ pc \in {"rem", "del_scan", "del_key"}
  /\ Exposed # {}
  /\ pc' = "aborted"
  /\ hist' = <<[args |-> args, store0 |-> store0, prints |-> Prints(log),
                final |-> store, exposed |-> Exposed]>>
  /\ UNCHANGED <<store, args, patIdx, cur, batch, calls, k, t, ids, idx,
                 dcur, dbatch, log, store0>>

\* After the interrupted run the tool is run again, any number of times,
\* with any states selected, with or without --dry-run.
Resweep ==
  /\ UNCHANGED album
  /\ hist # <<>>
  /\ pc \in {"aborted", "done"}
  /\ args' \in {f \in Flags : f.failed \/ f.active \/ f.queued}
  /\ store0' = store
  /\ pc' = "import"
  /\ patIdx' = 0
  /\ cur' = 0
  /\ batch' = <<>>
  /\ calls' = 0
  /\ k' = <<>>
  /\ t' = "none"
  /\ ids' = <<>>
  /\ idx' = 0
  /\ dcur' = 0
  /\ dbatch' = <<>>
  /\ log' = <<>>
  /\ UNCHANGED <<store, hist>>

\* An interrupted run and the runs after it, with no other writer.
NextAbort ==
  \/ Next
  \/ Abort
  \/ Resweep

SpecAbort == InitAbort /\ [][NextAbort]_vars

----------------------------------------------------------------------------
\* The live system next to a running sweep. It is not part of the tool: the
\* three actions are the removals a queue server makes while it works on
\* its jobs.

\* One failed-state container swept with --clean-failed, not dry.
InitLive ==
  /\ args \in {f \in Flags : f.failed /\ ~f.dry}
  /\ \E v \in ContainerValues(PlainIds, MaxRefs) :
       store = StoreOf(QFailed, v, QFailed, v)
  /\ store0 = store
  /\ InitLocals

ToolVars == <<args, pc, patIdx, cur, batch, calls, k, t, ids, idx,
              dcur, dbatch, log, store0, hist, album>>

\* The live system takes one entry out of a container.
LiveRemovesMember ==
  /\ \E c \in ContainerNames :
       /\ store[c].t \in Recognized
       /\ \E j \in Range(store[c].m) :
            store' = [store EXCEPT
                        ![c] = Stored(@.t, IF @.t = "list" THEN LRem(@.m, 1, j)
                                           ELSE MRem(@.m, j))]
  /\ UNCHANGED ToolVars

\* The live system deletes the hash of a job.
LiveDeletesDataKey ==
  /\ \E j \in PlainIds :
       /\ Exists(DataKey(j))
       /\ store' = Deleted(DataKey(j))
  /\ UNCHANGED ToolVars

\* The live system deletes a whole container.
LiveDeletesContainer ==
  /\ \E c \in ContainerNames :
       /\ Exists(c)
       /\ store' = Deleted(c)
  /\ UNCHANGED ToolVars

\* One run of the tool next to the live system.
NextLive ==
  \/ Next
  \/ LiveRemovesMember
  \/ LiveDeletesDataKey
  \/ LiveDeletesContainer

SpecLive == InitLive /\ [][NextLive]_vars

----------------------------------------------------------------------------
\* Reading the log.

\* The calls that change the keyspace: LREM / SREM / ZREM and DEL.
MutatingOps == {"rem", "delete"}

\* The run is inside clean_container.
InClean == pc \in {"gettype", "getids", "type2", "rem", "del_scan", "del_key"}

\* The run is in main's loops, between two clean_container calls, or over.
InMain == pc \in {"yield", "scan", "done"}

\* Entry e is written by main's loops, not by clean_container.
BackInMain(e) ==
  \/ e.op \in {"yield", "clean", "done"}
  \/ e.op = "scan" /\ e.key \in Range(QUEUE_PATTERNS)

\* The entry of the clean_container call that entry i belongs to.
CleanOf(i) ==
  CHOOSE c \in 1..i :
    /\ log[c].op = "clean"
    /\ \A m \in (c + 1)..i : log[m].op # "clean"

\* The clean_container call that extracted at entry i has returned.
CleanFinished(i) == InMain \/ \E m \in LogIdx : m > i /\ log[m].op = "clean"

\* The queue state of a key name, by the suffix table.
StateOf(name) ==
  IF EndsWith(name, SufFailed) THEN "Failed"
  ELSE IF EndsWith(name, SufActive) THEN "Active"
  ELSE IF \/ EndsWith(name, SufWaiting) \/ EndsWith(name, SufWait)
          \/ EndsWith(name, SufPaused) \/ EndsWith(name, SufDelayed)
    THEN "Queued"
  ELSE "None"

SelectedStates ==
  (IF args.failed THEN {"Failed"} ELSE {})
    \cup (IF args.active THEN {"Active"} ELSE {})
    \cup (IF args.queued THEN {"Queued"} ELSE {})

----------------------------------------------------------------------------
\* C1: a sweep with --dry-run makes no mutating call (no LREM / SREM / ZREM,
\* no DEL), whatever states are selected and whatever the containers hold,
\* and the keyspace is at every point of the sweep what it was at its start.
C1_DryRunReadOnly ==
  args.dry =>
    /\ store = store0
    /\ \A i \in LogIdx : log[i].op \notin MutatingOps

\* A finished dry run that reported two containers.
C1_Witness ==
  /\ args.dry
  /\ pc = "done"
  /\ Len(Prints(log)) = 2

\* C2: after a non-dry-run purge of a container has returned, no key whose
\* name contains an extracted id as a substring exists, and the container
\* holds no member equal to an extracted id.
C2_PurgeLeavesNoKey ==
  ~args.dry =>
    \A i \in LogIdx :
      (log[i].op = "ids" /\ CleanFinished(i)) =>
        \A j \in Range(log[i].arg) :
          /\ \A key \in KeyNames : Exists(key) => ~Contains(key, j)
          /\ j \notin Range(store[log[i].key].m)

\* C3: while a non-dry-run clean of container k runs, every id for which
\* the clean has already deleted a key is no longer a member of k.
C3_ReferenceRemovedFirst ==
  (InClean /\ ~args.dry) =>
    \A i \in LogIdx :
      (log[i].op = "delete" /\ log[CleanOf(i)].key = k
         /\ \A m \in LogIdx : log[m].op = "clean" => m <= CleanOf(i)) =>
        log[i].arg[1] \notin Range(store[k].m)

\* A clean of a container with two ids that has deleted a key and has more
\* keys to delete.
C3_Witness ==
  /\ ~args.dry
  /\ pc = "del_key"
  /\ Len(ids) = 2
  /\ ids[1] # ids[2]
  /\ log[Len(log)].op = "delete"

\* C4: a finished non-dry-run sweep prints the same container lines, in the
\* same order and with the same counts, as a dry-run sweep with the same
\* states selected that started from the same keyspace.
C4_DryRunCountsEqual ==
  (Len(hist) = 1 /\ hist[1].args.dry /\ hist[1].store0 = store0 /\ pc = "done") =>
    Prints(log) = hist[1].prints

\* C5: the second of two non-dry-run sweeps in immediate succession with the
\* same states selected finds every container the first one reported absent,
\* extracts no id from any container, prints no container line and makes no
\* mutating call.
C5_SecondSweepIdle ==
  (Len(hist) = 1 /\ ~hist[1].args.dry) =>
    /\ \A i \in 1..Len(hist[1].prints) :
         store0[hist[1].prints[i].key] = None
    /\ \A i \in LogIdx :
         /\ log[i].op \notin MutatingOps
         /\ log[i].op # "print"
         /\ log[i].op = "ids" => log[i].n = 0

\* A finished second sweep after a first one that purged a container, the
\* second one having extracted (nothing) from a container it was handed.
C5_Witness ==
  /\ Len(hist) = 1
  /\ ~hist[1].args.dry
  /\ pc = "done"
  /\ Len(hist[1].prints) >= 1
  /\ \E i \in LogIdx : log[i].op = "ids"

\* C6: a non-dry-run purge of a list container prints the number of its
\* entries, duplicates counted, and once over has left no occurrence of any
\* extracted value in the list and no key matching "*<id>*" for any of them.
C6_ListWithDuplicates ==
  (store0[QFailed].t = "list" /\ ~args.dry) =>
    /\ \A i \in LogIdx :
         log[i].op = "print" =>
           log[i].key = QFailed /\ log[i].n = Len(store0[QFailed].m)
    /\ pc = "done" =>
         /\ Len(Prints(log)) = 1
         /\ \A j \in Range(store0[QFailed].m) :
              /\ j \notin Range(store[QFailed].m)
              /\ \A key \in KeyNames :
                   GlobMatch(JobPattern(j), key) => ~Exists(key)

\* The purge of the list [7, p, 7] is over and reported 3 jobs.
C6_Witness ==
  /\ ~args.dry
  /\ pc = "done"
  /\ store0[QFailed] = [t |-> "list", m |-> <<Id7, IdP, Id7>>]
  /\ Len(Prints(log)) = 1
  /\ Prints(log)[1].n = 3
  /\ ~Exists(DataKey(Id7))
  /\ ~Exists(DataKey(IdP))

\* C7: a run with no state selected ends in the usage error having made no
\* connection call and no store command.
C7_UsageErrorBeforeStoreAccess ==
  pc = "usage_error" =>
    \A i \in LogIdx :
      log[i].op \notin {"from_url", "scan", "type", "read", "rem", "delete"}

\* C8: a clean_container call that extracts no id makes no mutating call and
\* prints nothing: from its start to the extraction there are only the type
\* and read calls, and after the extraction the run is back in main.
C8_NoIdsNoWrite ==
  \A i \in LogIdx :
    (log[i].op = "ids" /\ log[i].n = 0) =>
      /\ \A m \in CleanOf(i)..i : log[m].op \in {"clean", "type", "read", "ids"}
      /\ i < Len(log) => BackInMain(log[i + 1])
      /\ i = Len(log) => InMain

\* A finished non-dry-run sweep that extracted nothing from one container
\* and purged another.
C8_Witness ==
  /\ ~args.dry
  /\ pc = "done"
  /\ \E i \in LogIdx : log[i].op = "ids" /\ log[i].n = 0
  /\ Len(Prints(log)) = 1

\* C9: a container key whose type is not list, set or zset when
\* get_job_ids reads it yields no id and is skipped: the run is back in
\* main right after, and no run ends in an error.
C9_UnrecognizedTypeSkipped ==
  /\ pc # "crashed"
  /\ \A i \in LogIdx :
       (log[i].op = "type" /\ log[i - 1].op = "clean"
          /\ log[i].ty \notin Recognized) =>
         /\ i < Len(log)
         /\ log[i + 1].op = "ids"
         /\ log[i + 1].n = 0
         /\ i + 1 < Len(log) => BackInMain(log[i + 2])
         /\ i + 1 = Len(log) => InMain

\* A finished sweep that skipped a container of type string and went on to
\* report another container.
C9_Witness ==
  /\ pc = "done"
  /\ \E i \in LogIdx :
       /\ log[i].op = "type"
       /\ log[i].ty = "string"
       /\ \E m \in LogIdx : m > i /\ log[m].op = "print"

\* C10: a scanned key is handed to clean_container exactly when the state
\* of its suffix is selected, then once, and no key is scanned twice in a
\* sweep.
C10_ClassifyAndFilter ==
  \A i \in LogIdx :
    log[i].op = "yield" =>
      /\ log[i].n = IF StateOf(log[i].key) \in SelectedStates THEN 1 ELSE 0
      /\ (log[i].n >= 1) <=>
           (i < Len(log) /\ log[i + 1].op = "clean" /\ log[i + 1].key = log[i].key)
      /\ \A m \in LogIdx :
           (log[m].op = "yield" /\ log[m].key = log[i].key) => m = i
      /\ Cardinality({m \in LogIdx : log[m].op = "clean" /\ log[m].key = log[i].key})
           = log[i].n

\* A finished sweep that cleaned one scanned key and passed over another.
C10_Witness ==
  /\ pc = "done"
  /\ \E i, m \in LogIdx :
       /\ log[i].op = "yield" /\ log[i].n = 1
       /\ log[m].op = "yield" /\ log[m].n = 0

\* C11: next to a live system that removes container entries, job hashes
\* and whole containers, no step brings the run to an error, and a remove
\* or delete call of the tool whose target is gone when it is made changes
\* nothing and leaves the run in its loops.
C11_TransientAbsence ==
  [][/\ pc' # "crashed"
     /\ (pc = "rem" /\ log' # log /\ ids[idx] \notin Range(store[k].m)) =>
          /\ store' = store
          /\ pc' \in {"rem", "del_scan"}
     /\ (pc = "del_key" /\ log' # log /\ ~Exists(Head(dbatch))) =>
          /\ store' = store
          /\ pc' \in {"del_key", "del_scan", "yield", "scan", "done"}]_vars

\* A finished sweep whose container was gone when the tool removed an id it
\* had listed once, and that deleted a key that was gone.
C11_Witness ==
  /\ pc = "done"
  /\ \E i, m \in LogIdx :
       /\ log[i].op = "ids" /\ Injective(log[i].arg) /\ Len(log[i].arg) = 2
       /\ m > i /\ log[m].op = "rem" /\ log[m].n = 0
       /\ store0[log[m].key].t = "list"
  /\ \E i \in LogIdx : log[i].op = "delete" /\ log[i].n = 0

\* The r.scan calls of main that start a walk of the keyspace (cursor 0).
Walks ==
  SelectSeq(log, LAMBDA e : e.op = "scan" /\ e.n = 0
                              /\ e.key \in Range(QUEUE_PATTERNS))

DeletedFor(j) ==
  {log[i].key : i \in {m \in LogIdx : log[m].op = "delete" /\ log[m].arg = <<j>>}}

\* C13: the keys a non-dry-run purge deletes for a job id j are the keys
\* whose name contains j as a literal substring: every key deleted for j
\* contains j, and once the purge of j's container has returned no key
\* that contains j is left.
C13_DeletesExactlySubstring ==
  ~args.dry =>
    \A i \in LogIdx :
      log[i].op = "ids" =>
        \A j \in Range(log[i].arg) :
          /\ \A key \in DeletedFor(j) : Contains(key, j)
          /\ CleanFinished(i) =>
               {key \in KeyNames : Exists(key) /\ Contains(key, j)} = {}

\* No job id of the keyspace occurs inside another one.
NoIdInsideAnother ==
  \A a, b \in PlainIds : a # b => ~Contains(b, a)

\* C14: when no job id occurs inside another, a non-dry-run purge of job j
\* deletes only the hash of job j (no other job's hash, no container key),
\* and after the sweep no container of any state holds an id whose hash
\* the sweep deleted.
C14_PurgeDeletesOnlyOwnData ==
  (~args.dry /\ NoIdInsideAnother) =>
    /\ \A i \in LogIdx :
         log[i].op = "delete" => log[i].key = DataKey(log[i].arg[1])
    /\ pc = "done" =>
         \A c \in ContainerNames :
           \A j \in Range(store[c].m) :
             \A i \in LogIdx :
               log[i].op = "delete" => log[i].key # DataKey(j)

\* C15: at every point of a sweep, a container whose state is not selected
\* holds what it held when the sweep started.
C15_UnselectedUnchanged ==
  \A c \in ContainerNames :
    StateOf(c) \notin SelectedStates => store[c] = store0[c]

\* C16: two finished non-dry-run sweeps of the same keyspace with the same
\* states selected leave the same keyspace, whatever order the scans
\* returned the containers in.
C16_OrderIndependent ==
  (Len(hist) = 1 /\ pc = "done" /\ ~args.dry) => store = hist[1].final

C18_OrphansNeverDeleted ==
  hist # <<>> =>
    \A j \in hist[1].exposed :
      /\ \A c \in ContainerNames : j \notin Range(hist[1].final[c].m)
      /\ Exists(DataKey(j))

\* After the interrupted run no container holds an id i such that the glob
\* pattern "*i*" matches the name of the hash of job j.
Unmatched(j) ==
  \A c \in ContainerNames :
    \A i \in Range(hist[1].final[c].m) :
      ~GlobMatch(<<"*">> \o i \o <<"*">>, DataKey(j))

\* C18: the hash of a job that an interrupted run left without its
\* reference is never deleted by a later sweep, provided that after the
\* interruption no container holds an id whose pattern matches the hash.
C18_UnmatchedOrphansStay ==
  hist # <<>> =>
    \A j \in hist[1].exposed : Unmatched(j) => Exists(DataKey(j))

\* A sweep after the interrupted run has purged a container and is over,
\* and the hash of the job left without reference is still there.
C18_Witness ==
  /\ hist # <<>>
  /\ pc = "done"
  /\ Len(Prints(log)) >= 1
  /\ ~args.dry
  /\ \E j \in hist[1].exposed : Unmatched(j) /\ Exists(DataKey(j))

\* The albumName values of the albums handed to the call.
UsedNames ==
  {album.existing_albums[x].albumName : x \in 1..Len(album.existing_albums)}

\* "base n" for n in 1..9, written out.
Numbered(base, n) ==
  base \o <<" ", <<"1", "2", "3", "4", "5", "6", "7", "8", "9">>[n]>>

\* C19: every call of find_unique_album_name returns; the name returned is
\* no existing album's albumName: it is the base name when that is unused,
\* else "base n" for the smallest n >= 1 for which "base n" is unused.
C19_UniqueAlbumName ==
  /\ [](album.pc = "returned" =>
          /\ album.ret \notin UsedNames
          /\ album.base_name \notin UsedNames => album.ret = album.base_name
          /\ album.base_name \in UsedNames =>
               \E n \in 1..(Len(album.existing_albums) + 1) :
                 /\ album.ret = Numbered(album.base_name, n)
                 /\ \A m \in 1..(n - 1) :
                      Numbered(album.base_name, m) \in UsedNames)
  /\ <>(album.pc = "returned")

\* The call returned "a 3": "a", "a 1" and "a 2" are albums.
C19_Witness ==
  /\ album.pc = "returned"
  /\ album.base_name = NameA
  /\ album.i = 3
  /\ album.ret = <<"a", " ", "3">>

====
